---------------------------- MODULE Spec2Model ----------------------------
(***************************************************************************)
(* The PSBT signing service of src/main.rs: process startup (main, run,    *)
(* AppState::init), the POST /sign_psbt handler (the Json<SignRequest>     *)
(* extractor with de_psbt_from_base64, sign_service, the SignResponse      *)
(* encoder serialize_psbt_to_base64, Error::into_response) and GET /health.*)
(*                                                                         *)
(* A PSBT text is modelled by its three layers: whether the text is in the *)
(* base64 alphabet, whether the bytes carry a PSBT at all, and the input   *)
(* maps as the ordered key-value pairs found in the bytes.  A PSBT value   *)
(* is a sequence of input maps (key -> value), as bitcoin::Psbt holds them.*)
(***************************************************************************)
EXTENDS Naturals, Sequences, FiniteSets

\* ------------------------------------------------------------------ bounds

\* The largest number of inputs of a submitted PSBT.
MaxInputs == 2

\* The request tasks the runtime runs at the same time.
Requests == {"r1", "r2"}

\* ------------------------------------------------------------ configuration

\* The descriptor strings a config file may carry: one that parses, one that
\* does not.
Xprvs == {"kA", "garbage"}

\* bitcoin::Network values of the config file tried here.
Networks == {"testnet", "bitcoin"}

\* struct Config { port, network, xprv }; port is modelled by whether the
\* address can be bound.
Configs == [xprv : Xprvs, network : Networks, portFree : BOOLEAN]

\* Whether Wallet::create_single(xprv).network(n).create_wallet_no_persist()
\* returns Ok: the descriptor parses and its key is valid for the network
\* (kA is a test-network key).
CreateWalletOk(cfg) == cfg.xprv = "kA" /\ cfg.network = "testnet"

NoWallet == [key |-> "none", network |-> "none"]

\* An init that goes on with whatever the config holds instead of panicking.
AppState_init_lenient(cfg) ==
  [panic |-> FALSE, wallet |-> [key |-> cfg.xprv, network |-> cfg.network]]

\* AppState::init: the wallet, or a panic ("create wallet") when the wallet
\* cannot be created.  It has no Err path.
AppState_init(cfg) ==
  IF CreateWalletOk(cfg)
  THEN [panic |-> FALSE, wallet |-> [key |-> cfg.xprv, network |-> cfg.network]]
  ELSE [panic |-> TRUE, wallet |-> NoWallet]

\* ---------------------------------------------------------------- PSBT text

\* The PSBT input key types used here, in the order of their type bytes
\* (0x01 witness_utxo, 0x02 partial_sig, 0x06 bip32_derivation,
\* 0x08 final_scriptwitness): the order in which a map is serialized.
KeyOrder == <<"utxo", "psig", "deriv", "final">>

\* The key-value pairs of one input as a client may send them.  kA is the
\* key of the service's wallet, kB some other key.
ForeignInput == <<(<<"utxo", "u">>), (<<"deriv", "kB">>)>>
ForeignInputUnordered == <<(<<"deriv", "kB">>), (<<"utxo", "u">>)>>
OwnedInput == <<(<<"utxo", "u">>), (<<"deriv", "kA">>)>>
OwnedInputNoUtxo == <<(<<"deriv", "kA">>)>>

\* The pairs of an input as the service returns it once signed by kA and
\* finalized.
FinalInput == <<(<<"utxo", "u">>), (<<"final", "kA">>)>>

InputEncodings ==
  {ForeignInput, ForeignInputUnordered, OwnedInput, OwnedInputNoUtxo}

\* "not-base64": text outside the base64 alphabet.
NotBase64 == [b64ok |-> FALSE, magic |-> FALSE, inputs |-> <<>>]

\* Valid base64 whose bytes are a truncated or corrupted PSBT.
Truncated == [b64ok |-> TRUE, magic |-> FALSE, inputs |-> <<>>]

\* Valid base64 of well-formed bytes whose one input repeats a key.
DuplicateKey ==
  [b64ok |-> TRUE, magic |-> TRUE,
   inputs |-> <<(<<(<<"utxo", "u">>), (<<"utxo", "u">>)>>)>>]

WellFormedTexts ==
  {[b64ok |-> TRUE, magic |-> TRUE, inputs |-> s] :
     s \in UNION {[1..n -> InputEncodings] : n \in 1..MaxInputs}}

\* The texts a client may put in { "psbt": ... }.
Texts == {NotBase64, Truncated, DuplicateKey} \cup WellFormedTexts

NoText == [b64ok |-> FALSE, magic |-> FALSE, inputs |-> <<>>]

\* ------------------------------------------------------------------- codec

KeysOf(fields) == {fields[i][1] : i \in DOMAIN fields}

HasDuplicateKey(fields) ==
  \E i, j \in DOMAIN fields : i # j /\ fields[i][1] = fields[j][1]

\* One input map parsed from its key-value pairs: the pairs go into a map, so
\* the order in which they were sent is not kept.
ParseInput(fields) ==
  [k \in KeysOf(fields) |->
     fields[CHOOSE i \in DOMAIN fields : fields[i][1] = k][2]]

NoPsbt == <<>>

\* Psbt::from_str(s): base64 decoding, then the PSBT parser.
Psbt_from_str(s) ==
  IF ~s.b64ok THEN [ok |-> FALSE, psbt |-> NoPsbt, err |-> "invalid base64"]
  ELSE IF ~s.magic \/ \E i \in DOMAIN s.inputs : HasDuplicateKey(s.inputs[i])
  THEN [ok |-> FALSE, psbt |-> NoPsbt, err |-> "invalid psbt"]
  ELSE [ok |-> TRUE,
        psbt |-> [i \in DOMAIN s.inputs |-> ParseInput(s.inputs[i])],
        err |-> "none"]

\* A decoder that hands on a PSBT of its own for a text it cannot decode.
de_psbt_from_base64_lenient(s) ==
  IF Psbt_from_str(s).ok THEN Psbt_from_str(s)
  ELSE [ok |-> TRUE, psbt |-> <<ParseInput(OwnedInput)>>, err |-> "none"]

\* de_psbt_from_base64: the string of the "psbt" field through Psbt::from_str;
\* its error becomes the deserializer's custom error.
de_psbt_from_base64(s) == Psbt_from_str(s)

\* One input map written out: its pairs in the order of their key types.
SerializeInput(m) ==
  LET present == SelectSeq(KeyOrder, LAMBDA k : k \in DOMAIN m)
  IN  [i \in DOMAIN present |-> <<present[i], m[present[i]]>>]

\* serialize_psbt_to_base64: psbt.to_string(), the base64 of the serialized
\* PSBT.
serialize_psbt_to_base64(psbt) ==
  [b64ok |-> TRUE, magic |-> TRUE,
   inputs |-> [i \in DOMAIN psbt |-> SerializeInput(psbt[i])]]

\* ------------------------------------------------------------------ signing

\* The options sign_service builds: the two it sets, and try_finalize from
\* Default::default().
sign_options ==
  [trust_witness_utxo |-> TRUE, allow_all_sighashes |-> TRUE, try_finalize |-> TRUE]

\* A signer that refuses an input that is already finalized.
SignInput_strict(w, inp) ==
  IF "final" \in DOMAIN inp
  THEN [ok |-> FALSE, err |-> "already finalized", input |-> inp]
  ELSE IF "deriv" \notin DOMAIN inp \/ inp.deriv # w.key
  THEN [ok |-> TRUE, err |-> "none", input |-> inp]
  ELSE IF "utxo" \notin DOMAIN inp
  THEN [ok |-> FALSE, err |-> "missing utxo", input |-> inp]
  ELSE [ok |-> TRUE, err |-> "none",
        input |-> [k \in DOMAIN inp \cup {"psig"} |->
                     IF k = "psig" THEN w.key ELSE inp[k]]]

\* A signer that signs every input that has a UTXO, whoever owns it.
SignInput_all(w, inp) ==
  IF "final" \in DOMAIN inp THEN [ok |-> TRUE, err |-> "none", input |-> inp]
  ELSE IF "utxo" \notin DOMAIN inp
  THEN [ok |-> FALSE, err |-> "missing utxo", input |-> inp]
  ELSE [ok |-> TRUE, err |-> "none",
        input |-> [k \in DOMAIN inp \cup {"psig"} |->
                     IF k = "psig" THEN w.key ELSE inp[k]]]

\* wallet.sign on one input of the PSBT, as the bdk_wallet signer behaves
\* under these options: a finalized input and an input whose derivation is
\* not of the wallet's key are left alone; an input of the wallet's key is
\* signed from its witness UTXO (trust_witness_utxo), and without one the
\* call fails.
SignInput(w, inp) ==
  IF "final" \in DOMAIN inp THEN [ok |-> TRUE, err |-> "none", input |-> inp]
  ELSE IF "deriv" \notin DOMAIN inp \/ inp.deriv # w.key
  THEN [ok |-> TRUE, err |-> "none", input |-> inp]
  ELSE IF "utxo" \notin DOMAIN inp
  THEN [ok |-> FALSE, err |-> "missing utxo", input |-> inp]
  ELSE [ok |-> TRUE, err |-> "none",
        input |-> [k \in DOMAIN inp \cup {"psig"} |->
                     IF k = "psig" THEN w.key ELSE inp[k]]]

\* try_finalize on one input: an input that carries the wallet's signature
\* gets its final witness, and the signing data is cleared.
FinalizeInput(w, inp) ==
  IF "final" \notin DOMAIN inp /\ "psig" \in DOMAIN inp /\ inp.psig = w.key
     /\ "utxo" \in DOMAIN inp
  THEN [utxo |-> inp.utxo, final |-> inp.psig]
  ELSE inp

FinalizeAll(w, psbt) ==
  IF sign_options.try_finalize
  THEN [i \in DOMAIN psbt |-> FinalizeInput(w, psbt[i])]
  ELSE psbt

\* Wallet::sign as one call, from input i on: Ok with the PSBT signed and
\* finalized, or the first input's error with the PSBT as modified so far.
RECURSIVE SignFrom(_, _, _)
SignFrom(w, psbt, i) ==
  IF i > Len(psbt) THEN [ok |-> TRUE, err |-> "none", psbt |-> FinalizeAll(w, psbt)]
  ELSE LET r == SignInput(w, psbt[i])
       IN  IF r.ok THEN SignFrom(w, [psbt EXCEPT ![i] = r.input], i + 1)
           ELSE [ok |-> FALSE, err |-> r.err, psbt |-> psbt]

Wallet_sign(w, psbt) == SignFrom(w, psbt, 1)

\* A sign that moves the wallet on to its next key.
WalletAfterSign_advancing(w, psbt) == [w EXCEPT !.key = "kA'"]

\* What a call of wallet.sign leaves of the wallet: it takes &self through
\* the Arc, so the wallet is as it was.
WalletAfterSign(w, psbt) == w

\* --------------------------------------------------------------- responses

NoResp ==
  [status |-> 0, ctype |-> "none", key |-> "none", psbt |-> NoText, msg |-> <<>>]

NoError == [variant |-> "none", inner |-> <<>>]

\* Error::InvalidTransaction(format!("signing failed: {e}")): the variant and
\* the string it holds, as its parts.
InvalidTransaction(e) ==
  [variant |-> "InvalidTransaction", inner |-> <<"signing failed", e>>]

\* #[error("invalid transaction: {0}")]: the Display text of an Error.
Error_Display(e) == <<"invalid transaction">> \o e.inner

\* The rejection of the Json<SignRequest> extractor when the body does not
\* deserialize into SignRequest: the framework's own response, made before
\* the handler is called.  A value the target type refuses is a data error.
JsonRejection(e) ==
  [status |-> 422, ctype |-> "text", key |-> "none", psbt |-> NoText,
   msg |-> <<"Failed to deserialize the JSON body into the target type", e>>]

\* Json(SignResponse { psbt }): the body { "psbt": "<base64>" }.
SignResponse(p) ==
  [status |-> 200, ctype |-> "json", key |-> "psbt",
   psbt |-> serialize_psbt_to_base64(p), msg |-> <<>>]

\* Error::into_response: (StatusCode::BAD_REQUEST, e) with e the string the
\* variant holds, sent as plain text.
Error_into_response(e) ==
  [status |-> 400, ctype |-> "text", key |-> "none", psbt |-> NoText,
   msg |-> e.inner]

\* tracing::error!(self = ?self, "error"): the Debug form of the Error, that
\* is the variant's name and the string it holds.
ErrorEvent(e) == [level |-> "error", category |-> e.variant, message |-> e.inner]

\* A handler that ignores the result of wallet.sign and returns the PSBT as
\* it is.
sign_service_result_swallow(ok, e, p) ==
  [ok |-> TRUE, err |-> NoError, psbt |-> p]

\* What sign_service returns from the result of wallet.sign: the map_err and
\* the ? operator, then Ok(Json(SignResponse { psbt: signed_psbt })).
sign_service_result(ok, e, p) ==
  IF ok THEN [ok |-> TRUE, err |-> NoError, psbt |-> p]
  ELSE [ok |-> FALSE, err |-> InvalidTransaction(e), psbt |-> NoPsbt]

\* -------------------------------------------------------------------- state

VARIABLES
  config,      \* the Config read by main
  server,      \* where run is: "init", "bind", "serving" or "crashed"
  wallet,      \* AppState.wallet, NoWallet before AppState::init returns
  pc,          \* where each request task is
  req,         \* the text of the "psbt" field of each request
  psbt,        \* each task's own PSBT (req.psbt, then signed_psbt)
  cursor,      \* the input wallet.sign is at, in each task
  err,         \* the Error each task's handler returned
  resp,        \* the response each task sent
  logged,      \* the error events each task emitted
  signCalls    \* how many times each task called wallet.sign

vars ==
  <<config, server, wallet, pc, req, psbt, cursor, err, resp, logged, signCalls>>

reqVars == <<pc, req, psbt, cursor, err, resp, logged, signCalls>>

\* A PSBT buffer shared by the tasks: a task may pick up the other's.
signed_psbt_shared(r) ==
  IF \E q \in Requests : q # r /\ psbt[q] # NoPsbt
  THEN psbt[CHOOSE q \in Requests : q # r /\ psbt[q] # NoPsbt]
  ELSE psbt[r]

\* let mut signed_psbt = req.psbt: the PSBT a task signs and returns is its
\* own.
signed_psbt(r) == psbt[r]

InFlight == {"extract", "handler", "sign", "encode", "fail"}

Init ==
  /\ config \in Configs
  /\ server = "init"
  /\ wallet = NoWallet
  /\ pc = [r \in Requests |-> "idle"]
  /\ req = [r \in Requests |-> NoText]
  /\ psbt = [r \in Requests |-> NoPsbt]
  /\ cursor = [r \in Requests |-> 0]
  /\ err = [r \in Requests |-> NoError]
  /\ resp = [r \in Requests |-> NoResp]
  /\ logged = [r \in Requests |-> {}]
  /\ signCalls = [r \in Requests |-> 0]

\* ------------------------------------------------------------------ startup

\* run, first line: AppState::init(&config).await.unwrap().
Startup ==
  /\ server = "init"
  /\ LET r == AppState_init(config)
     IN  IF r.panic
         THEN server' = "crashed" /\ UNCHANGED wallet
         ELSE server' = "bind" /\ wallet' = r.wallet
  /\ UNCHANGED <<config>>
  /\ UNCHANGED reqVars

\* run: TcpListener::bind(..).await.unwrap(), the router, axum::serve.
Bind ==
  /\ server = "bind"
  /\ server' = IF config.portFree THEN "serving" ELSE "crashed"
  /\ UNCHANGED <<config, wallet>>
  /\ UNCHANGED reqVars

\* health: GET /health answers "ok"; it reads and writes nothing.
Health ==
  /\ server = "serving"
  /\ UNCHANGED vars

\* ----------------------------------------------------------- POST /sign_psbt

\* A POST /sign_psbt with body { "psbt": t } is accepted and given a task.
Arrive(r, t) ==
  /\ server = "serving"
  /\ pc[r] = "idle"
  /\ req' = [req EXCEPT ![r] = t]
  /\ pc' = [pc EXCEPT ![r] = "extract"]
  /\ UNCHANGED <<config, server, wallet, psbt, cursor, err, resp, logged,
                 signCalls>>

\* A client posts again the PSBT text that the successful response of task q
\* carries.
Resubmit(r, q) ==
  /\ pc[q] = "done"
  /\ resp[q].status = 200
  /\ Arrive(r, resp[q].psbt)

\* The Json<SignRequest> extractor: SignRequest.psbt through
\* de_psbt_from_base64; on an error the rejection is the response and
\* sign_service is not called.
Extract(r) ==
  /\ pc[r] = "extract"
  /\ LET d == de_psbt_from_base64(req[r])
     IN  IF d.ok
         THEN /\ psbt' = [psbt EXCEPT ![r] = d.psbt]
              /\ pc' = [pc EXCEPT ![r] = "handler"]
              /\ UNCHANGED resp
         ELSE /\ resp' = [resp EXCEPT ![r] = JsonRejection(d.err)]
              /\ pc' = [pc EXCEPT ![r] = "done"]
              /\ UNCHANGED psbt
  /\ UNCHANGED <<config, server, wallet, req, cursor, err, logged, signCalls>>

\* sign_service up to the call: signed_psbt = req.psbt, the options, and
\* state.wallet.sign(&mut signed_psbt, sign_options) entered.
SignCall(r) ==
  /\ pc[r] = "handler"
  /\ signCalls' = [signCalls EXCEPT ![r] = @ + 1]
  /\ cursor' = [cursor EXCEPT ![r] = 1]
  /\ pc' = [pc EXCEPT ![r] = "sign"]
  /\ UNCHANGED <<config, server, wallet, req, psbt, err, resp, logged>>

\* wallet.sign at its next input: the input is signed in place, or the call
\* returns the signer's error.
SignStep(r) ==
  /\ pc[r] = "sign"
  /\ cursor[r] <= Len(psbt[r])
  /\ LET s == SignInput(wallet, signed_psbt(r)[cursor[r]])
     IN  IF s.ok
         THEN /\ psbt' = [psbt EXCEPT ![r][cursor[r]] = s.input]
              /\ cursor' = [cursor EXCEPT ![r] = @ + 1]
              /\ UNCHANGED <<pc, err, wallet>>
         ELSE LET out == sign_service_result(FALSE, s.err, signed_psbt(r))
              IN  /\ wallet' = WalletAfterSign(wallet, psbt[r])
                  /\ cursor' = [cursor EXCEPT ![r] = 0]
                  /\ err' = [err EXCEPT ![r] = out.err]
                  /\ psbt' = [psbt EXCEPT ![r] = out.psbt]
                  /\ pc' = [pc EXCEPT ![r] = IF out.ok THEN "encode" ELSE "fail"]
  /\ UNCHANGED <<config, server, req, resp, logged, signCalls>>

\* wallet.sign past the last input: the finalizer runs and the call returns
\* Ok.
SignReturn(r) ==
  /\ pc[r] = "sign"
  /\ cursor[r] > Len(psbt[r])
  /\ LET out == sign_service_result(TRUE, "none", FinalizeAll(wallet, signed_psbt(r)))
     IN  /\ psbt' = [psbt EXCEPT ![r] = out.psbt]
         /\ err' = [err EXCEPT ![r] = out.err]
         /\ pc' = [pc EXCEPT ![r] = IF out.ok THEN "encode" ELSE "fail"]
  /\ wallet' = WalletAfterSign(wallet, psbt[r])
  /\ cursor' = [cursor EXCEPT ![r] = 0]
  /\ UNCHANGED <<config, server, req, resp, logged, signCalls>>

\* Ok(Json(SignResponse { psbt: signed_psbt })) becomes the response; the
\* task's PSBT is dropped.
Encode(r) ==
  /\ pc[r] = "encode"
  /\ resp' = [resp EXCEPT ![r] = SignResponse(signed_psbt(r))]
  /\ psbt' = [psbt EXCEPT ![r] = NoPsbt]
  /\ pc' = [pc EXCEPT ![r] = "done"]
  /\ UNCHANGED <<config, server, wallet, req, cursor, err, logged, signCalls>>

\* Err(e) becomes the response through Error::into_response, which logs the
\* error first.
Fail(r) ==
  /\ pc[r] = "fail"
  /\ logged' = [logged EXCEPT ![r] = @ \cup {ErrorEvent(err[r])}]
  /\ resp' = [resp EXCEPT ![r] = Error_into_response(err[r])]
  /\ pc' = [pc EXCEPT ![r] = "done"]
  /\ UNCHANGED <<config, server, wallet, req, psbt, cursor, err, signCalls>>

ClearTask(r) ==
  /\ pc' = [pc EXCEPT ![r] = "idle"]
  /\ req' = [req EXCEPT ![r] = NoText]
  /\ psbt' = [psbt EXCEPT ![r] = NoPsbt]
  /\ cursor' = [cursor EXCEPT ![r] = 0]
  /\ err' = [err EXCEPT ![r] = NoError]
  /\ resp' = [resp EXCEPT ![r] = NoResp]
  /\ logged' = [logged EXCEPT ![r] = {}]
  /\ signCalls' = [signCalls EXCEPT ![r] = 0]

\* The transport drops a request in flight (the client went away): the task
\* and what it owns are dropped, no response is sent.
Cancel(r) ==
  /\ pc[r] \in InFlight
  /\ ClearTask(r)
  /\ UNCHANGED <<config, server, wallet>>

\* The client has its response; the task is over.
Release(r) ==
  /\ pc[r] = "done"
  /\ ClearTask(r)
  /\ UNCHANGED <<config, server, wallet>>

Next ==
  \/ Startup
  \/ Bind
  \/ Health
  \/ \E r \in Requests, t \in Texts : Arrive(r, t)
  \/ \E r, q \in Requests : Resubmit(r, q)
  \/ \E r \in Requests : Extract(r)
  \/ \E r \in Requests : SignCall(r)
  \/ \E r \in Requests : SignStep(r)
  \/ \E r \in Requests : SignReturn(r)
  \/ \E r \in Requests : Encode(r)
  \/ \E r \in Requests : Fail(r)
  \/ \E r \in Requests : Cancel(r)
  \/ \E r \in Requests : Release(r)

Spec == Init /\ [][Next]_vars

\* ------------------------------------------------------- what the claims use

\* The wallet AppState::init built for this process.
StartupWallet == [key |-> config.xprv, network |-> config.network]

\* The response to a request with text t when it is the only request: the
\* extractor, one call of wallet.sign, and the encoder or the error response.
ServiceResponse(w, t) ==
  LET d == Psbt_from_str(t)
  IN  IF ~d.ok THEN JsonRejection(d.err)
      ELSE LET s == Wallet_sign(w, d.psbt)
           IN  IF s.ok THEN SignResponse(s.psbt)
               ELSE Error_into_response(InvalidTransaction(s.err))

Decodes(t) == Psbt_from_str(t).ok

Done(r) == pc[r] = "done"

KeyRank(k) == CHOOSE i \in DOMAIN KeyOrder : KeyOrder[i] = k

\* A text whose inputs carry their pairs in ascending order of key type.
Canonical(t) ==
  \A n \in DOMAIN t.inputs :
    \A i, j \in DOMAIN t.inputs[n] :
      i < j => KeyRank(t.inputs[n][i][1]) < KeyRank(t.inputs[n][j][1])

\* No input of p is one the wallet's key can satisfy or has signed.
NoneSatisfiable(w, p) ==
  \A i \in DOMAIN p :
    /\ "deriv" \in DOMAIN p[i] => p[i].deriv # w.key
    /\ "psig" \notin DOMAIN p[i]
    /\ "final" \notin DOMAIN p[i]

\* Every input of p carries the final signature of the wallet's key.
FullySigned(w, p) ==
  \A i \in DOMAIN p : "final" \in DOMAIN p[i] /\ p[i].final = w.key

\* The first part of a failure body, before the colon.
Category(rsp) == IF rsp.msg = <<>> THEN "none" ELSE rsp.msg[1]

\* ------------------------------------------------------------------- claims

\* C1 (as claimed): a request whose text does not decode to a PSBT (not
\* base64, or base64 of invalid bytes) is answered with status 400 and a
\* malformed-input category other than the category of signing failures.
C1_DecodeFailureIs400 ==
  \A r \in Requests :
    (Done(r) /\ ~Decodes(req[r])) =>
      /\ resp[r].status = 400
      /\ Category(resp[r]) # "none"
      /\ Category(resp[r]) # Category(Error_into_response(InvalidTransaction("e")))

\* C2 (as claimed): a request whose PSBT decodes and whose wallet.sign fails
\* is answered with status 400 and the JSON body { "error": "<category>:
\* <message>" }, the category being the error's tag.
C2_SignFailureBody ==
  \A r \in Requests :
    (Done(r) /\ Decodes(req[r]) /\ err[r] # NoError) =>
      /\ resp[r].status = 400
      /\ resp[r].ctype = "json"
      /\ resp[r].key = "error"
      /\ resp[r].msg = Error_Display(err[r])

\* C3: wallet.sign is never called for a request whose text does not decode:
\* such a request is answered by the extractor, with an error, and its task
\* never enters the handler.
C3_NoSignWithoutDecode ==
  \A r \in Requests :
    (pc[r] # "idle" /\ ~Decodes(req[r])) =>
      /\ signCalls[r] = 0
      /\ pc[r] \in {"extract", "done"}
      /\ Done(r) => resp[r].status # 200

C3_Witness ==
  \E r \in Requests :
    /\ Done(r) /\ req[r] = Truncated
    /\ resp[r].status # 200 /\ signCalls[r] = 0

C5_WalletNeverMutated == [][wallet # NoWallet => wallet' = wallet]_vars

C5_Witness ==
  \E r, q \in Requests :
    /\ Done(r) /\ resp[r].status = 200
    /\ resp[r].psbt.inputs = <<FinalInput>> /\ req[r].inputs = <<OwnedInput>>
    /\ Done(q) /\ resp[q].status = 400
    /\ ENABLED Health
    /\ wallet = StartupWallet

\* C6: under every interleaving, the response of each request is the
\* response it would get alone, a function of its own text and the wallet
\* built at startup; and while a request is being signed its PSBT is its own
\* PSBT signed up to the input the signer is at.
C6_ResponseIsOwn ==
  \A r \in Requests :
    /\ Done(r) => resp[r] = ServiceResponse(StartupWallet, req[r])
    /\ pc[r] = "sign" =>
         LET own == Psbt_from_str(req[r]).psbt
         IN  /\ DOMAIN psbt[r] = DOMAIN own
             /\ \A i \in DOMAIN own :
                  psbt[r][i] = IF i < cursor[r]
                               THEN SignInput(StartupWallet, own[i]).input
                               ELSE own[i]

C6_Witness ==
  \E r, q \in Requests :
    /\ r # q /\ Done(r) /\ pc[q] = "sign" /\ cursor[q] = 2
    /\ req[r].inputs = <<OwnedInput, ForeignInput>>
    /\ req[q].inputs = <<OwnedInput, OwnedInputNoUtxo>>
    /\ resp[r].status = 200
    /\ resp[r].psbt.inputs = <<FinalInput, ForeignInput>>
    /\ psbt[q] # Psbt_from_str(req[q]).psbt

C8_NoServiceWithoutWallet ==
  /\ ~CreateWalletOk(config) =>
       /\ server \in {"init", "crashed"}
       /\ wallet = NoWallet
       /\ ~ENABLED Health
       /\ \A r \in Requests : pc[r] = "idle"
  /\ (server \in {"bind", "serving"} \/ ENABLED Health
        \/ \E r \in Requests : pc[r] # "idle") =>
       /\ CreateWalletOk(config)
       /\ wallet = StartupWallet

C8_Witness == server = "crashed" /\ ~CreateWalletOk(config) /\ config.portFree

\* C9: a request ends in one of two ways, after at most one call of
\* wallet.sign: status 200 with the PSBT as the complete signing step left
\* it, or an error that carries no PSBT; a PSBT that wallet.sign changed
\* before it failed is not returned.
C9_NoPartialResult ==
  \A r \in Requests :
    /\ signCalls[r] <= 1
    /\ Done(r) =>
         LET d == Psbt_from_str(req[r])
             s == Wallet_sign(StartupWallet, d.psbt)
         IN  \/ /\ resp[r].status = 200 /\ resp[r].key = "psbt"
                /\ d.ok /\ s.ok /\ signCalls[r] = 1
                /\ resp[r].psbt = serialize_psbt_to_base64(s.psbt)
             \/ /\ resp[r].status # 200 /\ resp[r].key # "psbt"
                /\ resp[r].psbt = NoText
                /\ ~d.ok \/ ~s.ok

C9_Witness ==
  \E r \in Requests :
    /\ Done(r) /\ req[r].inputs = <<OwnedInput, OwnedInputNoUtxo>>
    /\ ~Wallet_sign(wallet, Psbt_from_str(req[r]).psbt).ok
    /\ Wallet_sign(wallet, Psbt_from_str(req[r]).psbt).psbt
         # Psbt_from_str(req[r]).psbt
    /\ resp[r].status = 400 /\ resp[r].psbt = NoText /\ signCalls[r] = 1

\* C10 (as claimed): every request that ends in failure, at decode or at
\* signing, has emitted an error event with the error's category and message.
C10_FailureLogged ==
  \A r \in Requests :
    (Done(r) /\ resp[r].status # 200) =>
      \E e \in logged[r] :
        e.level = "error" /\ e.category # "none" /\ e.message # <<>>

============================================================================
